---- MODULE Spec2Model ----
(***************************************************************************)
(* docker-logs: the rotating log writer (logfile.go), the stream task and  *)
(* the container monitor loop (main.go).                                   *)
(*                                                                         *)
(* The specifications share the module's variables:                        *)
(*   SpecLog    one LogFile and its directory under arbitrary Write calls  *)
(*   SpecResume one monitored name: log source, stream task, LogFile       *)
(*   SpecMon    the monitor loop of run() and the goroutines it launches   *)
(*   SpecTail   ReadLastLine on files of every content                     *)
(*   SpecClose  one LogFile called after its Close                         *)
(*   SpecConc   concurrent Write calls on one LogFile                      *)
(*   SpecGz     one LogFile under every failure of the compression         *)
(*   SpecIO     one LogFile under failing file operations, short writes    *)
(*   SpecRestart the LogFiles of the successive tasks of one name          *)
(*   SpecSince  the start of a stream task on every active file            *)
(***************************************************************************)
EXTENDS Integers, Sequences, FiniteSets, TLC

\* ------------------------------------------------------------------ bounds
MaxLen == 2        \* longest payload of one Write call (SpecLog)
MaxWrites == 2     \* Write calls per behaviour (SpecLog)
MaxLimit == 2      \* largest configured size limit (SpecLog)
MaxLines == 2      \* lines the containers print per behaviour (SpecResume)
MaxBody == 0       \* longest line content after its first byte (SpecResume)
MaxCopies == 2     \* Write calls of the stream tasks per behaviour (SpecResume)
Clock0 == 9        \* the runtime's clock at the start, in nanoseconds (SpecResume)
MaxTail == 4       \* bytes at the end of a file, after the padding (SpecTail)
MaxID == 2         \* container IDs the runtime hands out (SpecMon)
MaxSlots == 3      \* goroutines alive at once (SpecMon)

\* --------------------------------------------------------------- constants
NL == 10           \* '\n', the separator of bytes.SplitAfterSeq
SP == 32           \* ' ', the separator of strings.Split(lastLine, " ")
bufSize == 4096            \* ReadLastLine's buffer
maxReadSize == 1048576     \* ReadLastLine's window, 1024 * 1024

VARIABLES
    logf,      \* the LogFile object: f, size, limitSize, closed, compression
    disk,      \* the name's log directory: the active file and the rotated files
    ghost,     \* history of the writer: what was written, what was rotated out
    ret,       \* the last call: NewLogFile, Write or Close, l.closed before it, its result
    source,    \* the container's log at the runtime: its lines, the clock, lines so far
    task,      \* the stream task: its state, ReadLastLine's err, lastLine, since, position
    mon,       \* the loop of run(): its position, the list result, runningContainers
    infos,     \* containerInfos: name -> the goroutine slot of its containerInfo, 0 for none
    tasks,     \* the goroutines run() launched, with their containerInfo
    calls      \* concurrent Write calls on the LogFile: the holder of l.mu, each call

logVars == <<logf, disk, ghost, ret>>

resVars == <<source, task>>

monVars == <<mon, infos, tasks>>

vars == <<logf, disk, ghost, ret, source, task, mon, infos, tasks, calls>>

\* ------------------------------------------------------------ byte strings
SetMax(S) == IF S = {} THEN 0 ELSE CHOOSE x \in S : \A y \in S : y <= x

\* Index of the first NL of s, 0 when s holds none (bytes.Index).
IndexNL(s) ==
    IF \E i \in 1..Len(s) : s[i] = NL
    THEN CHOOSE i \in 1..Len(s) : s[i] = NL /\ \A j \in 1..(i-1) : s[j] # NL
    ELSE 0

\* bytes.SplitSeq in place of bytes.SplitAfterSeq: the pieces without their separators.
RECURSIVE SplitSeq(_)
SplitSeq(p) ==
    LET i == IndexNL(p)
    IN IF i = 0 THEN <<p>>
       ELSE <<SubSeq(p, 1, i - 1)>> \o SplitSeq(SubSeq(p, i + 1, Len(p)))

\* bytes.SplitAfterSeq(p, "\n"): the pieces of p, each ending after a separator;
\* the rest after the last separator is yielded too, also when it is empty.
RECURSIVE SplitAfterSeq(_)
SplitAfterSeq(p) ==
    LET i == IndexNL(p)
    IN IF i = 0 THEN <<p>>
       ELSE <<SubSeq(p, 1, i)>> \o SplitAfterSeq(SubSeq(p, i + 1, Len(p)))

\* compress/gzip: the header's magic bytes, the data, the ISIZE trailer.
GzipEncode(s) == <<31, 139>> \o s \o <<Len(s) % 256>>

GzipDecode(z) == SubSeq(z, 3, Len(z) - 1)

\* What a gzip.Writer has put into the file when its Close fails before the
\* buffered data is flushed: the header.
GzipUnflushed(s) == <<31, 139>>

\* ---------------------------------------------------------------- the disk
\* A rotated file is named <base>.<N> or <base>.<N>.gz: its key is <<N, gz>>.
RotKeys(d) == DOMAIN d.rot

\* Without strings.TrimSuffix(suffix, ".gz"): gconv.Int("N.gz") is 0.
EntryIndexNoTrim(key) == IF key[2] THEN 0 ELSE key[1]

\* gconv.Int(strings.TrimSuffix(suffix, ".gz")): the index a directory entry counts as.
EntryIndex(key) == key[1]

\* The WalkDir callback of newFile: the highest index among the rotated siblings.
WalkMaxIndex(d) == SetMax({EntryIndex(k) : k \in RotKeys(d)})

PutRot(rot, key, data) ==
    [k \in (DOMAIN rot) \cup {key} |-> IF k = key THEN data ELSE rot[k]]

DelRot(rot, key) == [k \in (DOMAIN rot) \ {key} |-> rot[k]]

\* A world: the LogFile l, the directory d, the history g.
World(l, d, g) == [l |-> l, d |-> d, g |-> g]

Res(w, err) == [w |-> w, err |-> err]

\* ------------------------------------------------------------ LogFile.newFile
\* The rotation part of newFile (l.f != nil): close, scan, move. Once the
\* active file is moved away, no segment over the limit is in the current file.
\* fault names the step that fails: "walk", "move" (rename, or the gzip
\* closure), "remove" (the original after compression), "flush" (the deferred
\* g.Close() of the closure, whose error is dropped); "none" for no failure.
Rotate(w, fault) ==
    LET l == w.l
        d == w.d
        idx == WalkMaxIndex(d) + 1
        closed == [l EXCEPT !.f = "stale"]
    IN IF l.f = "stale" THEN Res(w, TRUE)                       \* l.f.Close() fails
       ELSE IF fault = "walk" THEN Res(World(closed, d, w.g), TRUE)
       ELSE IF l.compression
       THEN IF fault = "move" \/ ~d.exists
            THEN \* the closure failed: os.Remove(newName), the original is kept
                 Res(World(closed, [d EXCEPT !.rot = DelRot(d.rot, <<idx, TRUE>>)], w.g), TRUE)
            ELSE LET dz == [d EXCEPT !.rot = PutRot(d.rot, <<idx, TRUE>>,
                                                    IF fault = "flush"
                                                    THEN GzipUnflushed(d.data)
                                                    ELSE GzipEncode(d.data))]
                     gz == [w.g EXCEPT !.hist = Append(@, [key |-> <<idx, TRUE>>, data |-> d.data])]
                 IN IF fault = "remove"
                    THEN Res(World(closed, dz, gz), TRUE)
                    ELSE Res(World(closed, [dz EXCEPT !.exists = FALSE, !.data = <<>>],
                                   [gz EXCEPT !.oversize = FALSE]), FALSE)
       ELSE IF fault = "move" \/ ~d.exists
            THEN Res(World(closed, d, w.g), TRUE)                  \* os.Rename fails
            ELSE Res(World(closed,
                           [d EXCEPT !.rot = PutRot(d.rot, <<idx, FALSE>>, d.data),
                                     !.exists = FALSE, !.data = <<>>],
                           [w.g EXCEPT !.hist = Append(@, [key |-> <<idx, FALSE>>, data |-> d.data]),
                                       !.oversize = FALSE]),
                     FALSE)

\* The open part of newFile taking a new file to be empty: l.size = 0.
OpenActiveSizeZero(w, fault) ==
    IF fault = "open"
    THEN Res(World([w.l EXCEPT !.f = "nil"], w.d, w.g), TRUE)
    ELSE LET d == [w.d EXCEPT !.exists = TRUE]
         IN IF fault = "stat"
            THEN Res(World([w.l EXCEPT !.f = "open"], d, w.g), TRUE)
            ELSE Res(World([w.l EXCEPT !.f = "open", !.size = 0], d, w.g), FALSE)

\* The open part of newFile: OpenFile(O_CREATE|O_APPEND|O_RDWR), Stat, l.size.
OpenActive(w, fault) ==
    IF fault = "open"
    THEN Res(World([w.l EXCEPT !.f = "nil"], w.d, w.g), TRUE)
    ELSE LET d == [w.d EXCEPT !.exists = TRUE]
         IN IF fault = "stat"
            THEN Res(World([w.l EXCEPT !.f = "open"], d, w.g), TRUE)
            ELSE Res(World([w.l EXCEPT !.f = "open", !.size = Len(d.data)], d, w.g), FALSE)

newFile(w, fault) ==
    IF w.l.f # "nil"
    THEN LET r == Rotate(w, fault)
             o == OpenActive(r.w, fault)
         IN IF r.err THEN r ELSE o
    ELSE OpenActive(w, fault)

\* l.f.Write(data) on the open handle: O_APPEND.
FileWrite(w, data) ==
    World(w.l, [w.d EXCEPT !.data = @ \o data], w.g)

\* l.f.Write(data) that fails after a part of data went into the file (the
\* disk is full): all but the last byte is written, an error is returned.
FileWriteShort(w, data) ==
    World(w.l, [w.d EXCEPT !.data = @ \o SubSeq(data, 1, Len(data) - 1)], w.g)

\* The fault "short" hits the first l.f.Write of the call that has bytes to write.
ShortHits(fault, data) == fault = "short" /\ data # <<>>

\* ------------------------------------------------------------- LogFile.Write
\* Rotating also when the segment fills the file exactly.
NeedsRotationAtLimit(l, size) == l.size + size >= l.limitSize

\* The rotation test of the slow path: l.size+size > l.limitSize.
NeedsRotation(l, size) == l.size + size > l.limitSize

\* One segment of the slow path. st = [w, n, err, fault]: the fault is spent by
\* the first newFile call, the fault "short" by the first write of bytes.
WriteSegment(st, data) ==
    LET w == st.w
        l == w.l
        size == Len(data)
    IN IF st.err THEN st
       ELSE IF size > l.limitSize
       THEN \* a single line over the limit is written as it is
            IF l.f # "open" THEN [st EXCEPT !.err = TRUE]
            ELSE IF ShortHits(st.fault, data)
            THEN [st EXCEPT !.w = FileWriteShort(w, data), !.err = TRUE, !.fault = "none"]
            ELSE LET w1 == FileWrite(w, data)
                 IN [st EXCEPT !.w = World([w1.l EXCEPT !.size = @ + size], w1.d,
                                           [w1.g EXCEPT !.oversize = TRUE, !.everOver = TRUE]),
                               !.n = @ + size]
       ELSE LET r == IF NeedsRotation(l, size)
                     THEN newFile(w, st.fault)
                     ELSE Res(w, FALSE)
                spent == IF NeedsRotation(l, size) THEN "none" ELSE st.fault
            IN IF r.err THEN [st EXCEPT !.w = r.w, !.err = TRUE, !.fault = spent]
               ELSE IF r.w.l.f # "open" THEN [st EXCEPT !.w = r.w, !.err = TRUE, !.fault = spent]
               ELSE IF ShortHits(st.fault, data)
               THEN [st EXCEPT !.w = FileWriteShort(r.w, data), !.err = TRUE, !.fault = "none"]
               ELSE LET w1 == FileWrite(r.w, data)
                    IN [st EXCEPT !.w = World([w1.l EXCEPT !.size = @ + size], w1.d, w1.g),
                                  !.n = @ + size, !.fault = spent]

RECURSIVE WriteSegments(_, _)
WriteSegments(st, segs) ==
    IF segs = <<>> \/ st.err THEN st
    ELSE WriteSegments(WriteSegment(st, Head(segs)), Tail(segs))

\* Write(p) under l.mu: the result is [w, n, err].
Write(w, p, fault) ==
    LET l == w.l
    IN IF l.closed THEN [w |-> w, n |-> 0, err |-> TRUE]
       ELSE LET r0 == IF l.f = "nil" THEN newFile(w, fault) ELSE Res(w, FALSE)
                f1 == IF l.f = "nil" THEN "none" ELSE fault
                w0 == r0.w
            IN IF r0.err THEN [w |-> w0, n |-> 0, err |-> TRUE]
               ELSE IF w0.l.size + Len(p) <= w0.l.limitSize
               THEN IF w0.l.f # "open" THEN [w |-> w0, n |-> 0, err |-> TRUE]
                    ELSE IF ShortHits(f1, p)
                    THEN [w |-> FileWriteShort(w0, p), n |-> Len(p) - 1, err |-> TRUE]
                    ELSE LET w1 == FileWrite(w0, p)
                         IN [w |-> World([w1.l EXCEPT !.size = @ + Len(p)], w1.d, w1.g),
                             n |-> Len(p), err |-> FALSE]
               ELSE LET st == WriteSegments([w |-> w0, n |-> 0, err |-> FALSE, fault |-> f1],
                                            SplitAfterSeq(p))
                    IN [w |-> st.w, n |-> st.n, err |-> st.err]

\* ------------------------------------------------------------- LogFile.Close
\* Close that releases the handle and leaves l.closed as it was.
CloseNoMark(w) ==
    IF w.l.closed THEN w
    ELSE World([w.l EXCEPT !.f = IF @ = "open" THEN "nil" ELSE @], w.d, w.g)

\* The error Close returns: l.f.Close() on a handle that is closed already.
CloseErr(w) == ~w.l.closed /\ w.l.f = "stale"

Close(w) ==
    IF w.l.closed THEN w
    ELSE World([w.l EXCEPT !.closed = TRUE, !.f = IF @ = "open" THEN "nil" ELSE @],
               w.d, w.g)

\* ---------------------------------------------------------------- NewLogFile
NewLogFile(d, g, limitSize, compression, fault) ==
    newFile(World([f |-> "nil", size |-> 0, limitSize |-> limitSize,
                   closed |-> FALSE, compression |-> compression], d, g),
            fault)

\* ==================================================================== SpecLog
\* One LogFile under arbitrary Write calls, Close and process restarts.

\* Byte 96+k marks the payload of the k-th Write call.
Letter(k) == 96 + k

Seqs(S, n) == UNION {[1..m -> S] : m \in 0..n}

Payloads(k) == Seqs({NL, Letter(k)}, MaxLen)

Faults == {"none", "walk", "move", "remove", "open", "stat"}

\* What can fail in NewLogFile's newFile, where l.f is nil: OpenFile and Stat.
NewFaults == {"none", "open", "stat"}

Limits == 1..MaxLimit

NoRot == [k \in {} |-> <<>>]

Old == <<122, NL>>

\* Directories a start can find: nothing, or what earlier runs left.
InitDisks ==
    { [exists |-> FALSE, data |-> <<>>, rot |-> NoRot],
      [exists |-> TRUE, data |-> Old,
       rot |-> PutRot(PutRot(NoRot, <<1, TRUE>>, GzipEncode(Old)), <<2, FALSE>>, Old)] }

InitGhost(d) ==
    [hist |-> <<>>, oversize |-> FALSE, everOver |-> FALSE, written |-> <<>>,
     failed |-> FALSE, broken |-> FALSE, writes |-> 0, disk0 |-> d]

\* The parts a specification does not use stay as they start.
Source0 == [lines |-> <<>>, clock |-> Clock0, n |-> 0]

Task0 == [state |-> "idle", readErr |-> FALSE, last |-> <<>>, since |-> <<>>, pos |-> 1]

Ret0 == [op |-> "none", closed |-> FALSE, n |-> 0, err |-> FALSE, len |-> 0]

Disk0 == [exists |-> FALSE, data |-> <<>>, rot |-> NoRot]

Logf0(lim, c) ==
    [f |-> "nil", size |-> 0, limitSize |-> lim, closed |-> TRUE, compression |-> c]

\* The -n flag: the monitored names, in order; a name may be given twice.
names == <<"a", "b", "a">>

Names == {names[k] : k \in 1..Len(names)}

Slots == 1..MaxSlots

FreeTask ==
    [name |-> "", id |-> 0, pc |-> "free", cancelled |-> FALSE,
     wg |-> 0, run |-> FALSE, writer |-> "none"]

Mon0 ==
    [pc |-> "list", i |-> 1, list |-> "none", running |-> [n \in Names |-> 0],
     await |-> 0]

Infos0 == [n \in Names |-> 0]

Tasks0 == [s \in Slots |-> FreeTask]

\* The goroutines that call Write on one LogFile: the copies of stdout and stderr.
Callers == {1, 2}

IdleCall == [pc |-> "idle", p |-> <<>>, st |-> <<>>, segs |-> <<>>]

Calls0 == [mu |-> 0, c |-> [k \in Callers |-> IdleCall]]

InitLog ==
    /\ \E d \in InitDisks, lim \in Limits, c \in BOOLEAN :
        \E r \in {NewLogFile(d, InitGhost(d), lim, c, "none")} :
           /\ logf = r.w.l
           /\ disk = r.w.d
           /\ ghost = r.w.g
    /\ ret = Ret0
    /\ source = Source0
    /\ task = Task0
    /\ mon = Mon0
    /\ infos = Infos0
    /\ tasks = Tasks0
    /\ calls = Calls0

\* stdcopy.StdCopy calls logfile.Write(p) frame by frame and returns at the
\* first error of a Write.
WriteOp ==
    /\ ghost.writes < MaxWrites
    /\ ~logf.closed
    /\ ~ghost.broken
    /\ \E p \in Payloads(ghost.writes + 1), fault \in Faults :
          \E r \in {Write(World(logf, disk, ghost), p, fault)} :
             /\ logf' = r.w.l
             /\ disk' = r.w.d
             /\ ghost' = [r.w.g EXCEPT !.writes = @ + 1,
                                       !.written = IF r.err THEN @ ELSE @ \o p,
                                       !.failed = @ \/ r.err,
                                       !.broken = r.err]
             /\ ret' = [op |-> "write", closed |-> logf.closed,
                      n |-> r.n, err |-> r.err, len |-> Len(p)]

\* The deferred logfile.Close() of handleWithContext.
CloseOp ==
    /\ ~logf.closed
    /\ \E w \in {Close(World(logf, disk, ghost))} :
          /\ logf' = w.l
          /\ disk' = w.d
          /\ ghost' = w.g
    /\ UNCHANGED ret

\* The next task of the name constructs a new LogFile on the same directory.
NewInstance ==
    /\ logf.closed
    /\ \E r \in {NewLogFile(disk, ghost, logf.limitSize, logf.compression, "none")} :
          /\ logf' = r.w.l
          /\ disk' = r.w.d
          /\ ghost' = [r.w.g EXCEPT !.broken = FALSE]
    /\ UNCHANGED ret

\* ================================================================= SpecResume
\* One monitored name: the container's log at the runtime, the stream task
\* (handleWithContext) and its LogFile.

\* ------------------------------------------------------------- ReadLastLine
Min(a, b) == IF a <= b THEN a ELSE b

\* The inner loop of ReadLastLine over one buffer: the 0-based position of the
\* last '\n' of buf that is not the file's final byte, -1 when there is none.
LastBreak(buf, offset, readPos, size) ==
    LET hits == {i \in 0..(Len(buf) - 1) :
                    /\ buf[i + 1] = NL
                    /\ ~(offset = size /\ readPos + i = size - 1)}
    IN IF hits = {} THEN -1 ELSE SetMax(hits)

\* The outer loop of ReadLastLine: buffers of bufSize bytes from the end backward,
\* at most maxReadSize bytes.
RECURSIVE ReadBack(_, _, _, _)
ReadBack(file, offset, totalRead, result) ==
    IF ~(offset > 0 /\ totalRead < maxReadSize) THEN result
    ELSE LET readSize == Min(bufSize, offset)
             readPos == offset - readSize
             buf == SubSeq(file, readPos + 1, offset)
             i == LastBreak(buf, offset, readPos, Len(file))
         IN IF i >= 0 THEN SubSeq(buf, i + 2, Len(buf)) \o result
            ELSE ReadBack(file, offset - readSize, totalRead + readSize, buf \o result)

ReadLastLine(file) ==
    IF Len(file) = 0 THEN <<>> ELSE ReadBack(file, Len(file), 0, <<>>)

\* ------------------------------------------------------------ addNanosecond
\* A timestamp is a count of nanoseconds written in decimal digits.
RECURSIVE FormatTime(_)
FormatTime(t) ==
    IF t < 10 THEN <<48 + t>> ELSE FormatTime(t \div 10) \o <<48 + (t % 10)>>

IsTime(token) == token # <<>> /\ \A i \in 1..Len(token) : token[i] \in 48..57

RECURSIVE ParseTime(_)
ParseTime(token) ==
    IF Len(token) = 1 THEN token[1] - 48
    ELSE 10 * ParseTime(SubSeq(token, 1, Len(token) - 1)) + (token[Len(token)] - 48)

\* The timestamp handed back as it came.
addNoNanosecond(timestamp) ==
    IF ~IsTime(timestamp) THEN [since |-> <<>>, err |-> TRUE]
    ELSE [since |-> timestamp, err |-> FALSE]

\* addNanosecond(timestamp): [since, err].
addNanosecond(timestamp) ==
    IF ~IsTime(timestamp) THEN [since |-> <<>>, err |-> TRUE]
    ELSE [since |-> FormatTime(ParseTime(timestamp) + 1), err |-> FALSE]

\* strings.Split(lastLine, " ")[0]
FirstToken(line) ==
    IF \E i \in 1..Len(line) : line[i] = SP
    THEN SubSeq(line, 1, (CHOOSE i \in 1..Len(line) :
                             line[i] = SP /\ \A j \in 1..(i - 1) : line[j] # SP) - 1)
    ELSE line

\* The since cursor left unset when the timestamp does not parse.
SinceOfNoFallback(lastLine) ==
    IF lastLine = <<>> THEN <<>>
    ELSE LET timestamp == FirstToken(lastLine)
             r == addNanosecond(timestamp)
         IN IF r.err THEN <<>> ELSE r.since

\* The since cursor of handleWithContext from the last line of the active file.
SinceOf(lastLine) ==
    IF lastLine = <<>> THEN <<>>
    ELSE LET timestamp == FirstToken(lastLine)
             r == addNanosecond(timestamp)
         IN IF r.err THEN timestamp ELSE r.since

\* ------------------------------------------------------- the container's log
\* A line as the runtime streams it with Timestamps: the timestamp, a space,
\* the content, the terminator. The content of the k-th line the containers
\* print starts with the byte 96+k.
LineBytes(line) ==
    FormatTime(line.ts) \o <<SP, Letter(line.id)>> \o [i \in 1..line.body |-> 120]
    \o <<NL>>

\* ContainerLogs(Since: since, Follow: true): the position of the first line at
\* or after since; every line when since is unset.
StreamStart(lines, since) ==
    IF since = <<>> \/ ~IsTime(since) THEN 1
    ELSE LET late == {i \in 1..Len(lines) : lines[i].ts >= ParseTime(since)}
         IN IF late = {} THEN Len(lines) + 1
            ELSE CHOOSE i \in late : \A j \in late : i <= j

\* The followed stream: the position of the next line it delivers, the first
\* at or after pos that is not before since.
StreamNext(lines, pos, since) ==
    IF since = <<>> \/ ~IsTime(since) THEN pos
    ELSE LET late == {i \in pos..Len(lines) : lines[i].ts >= ParseTime(since)}
         IN IF late = {} THEN Len(lines) + 1
            ELSE CHOOSE i \in late : \A j \in late : i <= j

ResumeLimits == {MaxBody + 3, MaxBody + 5}

\* What can fail in a Write of the copy: every step of newFile, the finishing
\* of the gzip stream, l.f.Write.
ResumeFaults == Faults \cup {"flush", "short"}

InitResume ==
    /\ \E lim \in ResumeLimits, c \in BOOLEAN : logf = Logf0(lim, c)
    /\ disk = Disk0
    /\ ghost = InitGhost(Disk0)
    /\ ret = Ret0
    /\ source = Source0
    /\ task = Task0
    /\ mon = Mon0
    /\ infos = Infos0
    /\ tasks = Tasks0
    /\ calls = Calls0

\* The container prints a line; the runtime stamps it with its clock, which
\* has gone on since the line before, or has not: two lines may carry the
\* same timestamp.
Emit ==
    /\ source.n < MaxLines
    /\ \E b \in 0..MaxBody, tick \in {0, 1} :
          source' = [lines |-> Append(source.lines,
                                      [ts |-> source.clock + tick, body |-> b,
                                       id |-> source.n + 1]),
                     clock |-> source.clock + tick,
                     n |-> source.n + 1]
    /\ UNCHANGED <<logVars, task>>

\* The container is recreated under a new ID, which takes time: its log starts
\* empty. A stream open on the old container ends, a ContainerLogs call for it
\* fails.
Recreate ==
    /\ source.lines # <<>>
    /\ source' = [source EXCEPT !.lines = <<>>, !.clock = @ + 1]
    /\ task' = IF task.state \in {"opening", "streaming"}
               THEN [task EXCEPT !.state = "ended"] ELSE task
    /\ UNCHANGED logVars

\* handleWithContext up to the call of ContainerLogs. NewLogFile fails: the
\* task returns without a LogFile. ReadLastLine fails (file.Stat, file.ReadAt):
\* lastLine = "". Then since, from the first token of lastLine.
TaskStart ==
    /\ task.state = "idle"
    /\ \E fault \in NewFaults :
       \E r \in {NewLogFile(disk, ghost, logf.limitSize, logf.compression, fault)} :
          /\ disk' = r.w.d
          /\ ghost' = [r.w.g EXCEPT !.broken = FALSE]
          /\ IF r.err
             THEN /\ logf' = Logf0(logf.limitSize, logf.compression)
                  /\ task' = task
             ELSE /\ logf' = r.w.l
                  /\ \E readErr \in BOOLEAN :
                     \E lastLine \in {IF readErr THEN <<>> ELSE ReadLastLine(r.w.d.data)} :
                        task' = [state |-> "opening", readErr |-> readErr,
                                 last |-> lastLine, since |-> SinceOf(lastLine),
                                 pos |-> 1]
    /\ UNCHANGED <<ret, source>>

\* c.ContainerLogs(ctx, id, {Since: since, Follow: true, ...}) returns: the
\* stream is open at the first line at or after since, or the call failed and
\* the task returns through the deferred logfile.Close().
TaskOpen ==
    /\ task.state = "opening"
    /\ \/ /\ task' = [task EXCEPT !.state = "streaming",
                                   !.pos = StreamStart(source.lines, task.since)]
          /\ UNCHANGED logVars
       \/ /\ task' = Task0
          /\ \E w \in {Close(World(logf, disk, ghost))} :
                /\ logf' = w.l
                /\ disk' = w.d
                /\ ghost' = w.g
          /\ UNCHANGED ret
    /\ UNCHANGED source

\* stdcopy.StdCopy copies the next frame, one line, into logfile.Write.
TaskCopy ==
    /\ task.state = "streaming"
    /\ StreamNext(source.lines, task.pos, task.since) <= Len(source.lines)
    /\ ghost.writes < MaxCopies
    /\ \E fault \in ResumeFaults :
       \E k \in {StreamNext(source.lines, task.pos, task.since)} :
       \E p \in {LineBytes(source.lines[k])} :
       \E r \in {Write(World(logf, disk, ghost), p, fault)} :
          /\ logf' = r.w.l
          /\ disk' = r.w.d
          /\ ghost' = [ghost EXCEPT !.writes = @ + 1, !.failed = @ \/ r.err]
          /\ task' = IF r.err THEN [task EXCEPT !.state = "ended"]
                     ELSE [task EXCEPT !.pos = k + 1]
    /\ UNCHANGED <<ret, source>>

\* The task returns (cancelled by the monitor, end of stream, copy error, or
\* the process stops): the deferred logfile.Close().
TaskStop ==
    /\ task.state \in {"streaming", "ended"}
    /\ \E w \in {Close(World(logf, disk, ghost))} :
          /\ logf' = w.l
          /\ disk' = w.d
          /\ ghost' = w.g
    /\ task' = Task0
    /\ UNCHANGED <<ret, source>>

\* ==================================================================== SpecMon
\* The loop of run() and the goroutines it launches. A task's LogFile is kept
\* as none / open / closed.

InitMon ==
    /\ mon = Mon0
    /\ infos = Infos0
    /\ tasks = Tasks0
    /\ calls = Calls0
    /\ logf = Logf0(1, FALSE)
    /\ disk = Disk0
    /\ ghost = InitGhost(Disk0)
    /\ ret = Ret0
    /\ source = Source0
    /\ task = Task0

\* --------------------------------------------------------------- goroutines
\* NewLogFile in handleWithContext: the writer is open, or the task returns.
T_NewLogFile(s) ==
    /\ tasks[s].pc = "start"
    /\ \/ tasks' = [tasks EXCEPT ![s].pc = "opened", ![s].writer = "open"]
       \/ tasks' = [tasks EXCEPT ![s].pc = "ret"]
    /\ UNCHANGED <<mon, infos>>

\* ReadLastLine, since and ContainerLogs(ctx, ...): the stream is open, or the
\* call fails (always under a cancelled ctx) and the deferred Close runs.
T_ContainerLogs(s) ==
    /\ tasks[s].pc = "opened"
    /\ \/ /\ ~tasks[s].cancelled
          /\ tasks' = [tasks EXCEPT ![s].pc = "copy"]
       \/ tasks' = [tasks EXCEPT ![s].pc = "ret", ![s].writer = "closed"]
    /\ UNCHANGED <<mon, infos>>

\* StdCopy returns and no deferred logfile.Close() runs.
T_CopyReturnsNoClose(s) ==
    /\ tasks[s].pc = "copy"
    /\ tasks' = [tasks EXCEPT ![s].pc = "ret"]
    /\ UNCHANGED <<mon, infos>>

\* stdcopy.StdCopy returns: end of stream, read or write error, or the ctx was
\* cancelled; the deferred r.Close() and logfile.Close() run.
T_CopyReturns(s) ==
    /\ tasks[s].pc = "copy"
    /\ tasks' = [tasks EXCEPT ![s].pc = "ret", ![s].writer = "closed"]
    /\ UNCHANGED <<mon, infos>>

\* The deferred function starting with info.run.Store(false), ahead of wg.Done().
T_RunFalseFirst(s) ==
    /\ tasks[s].pc = "ret"
    /\ tasks' = [tasks EXCEPT ![s].pc = "done", ![s].run = FALSE]
    /\ UNCHANGED <<mon, infos>>

\* The goroutine's deferred function: info.wg.Done() ...
T_WgDone(s) ==
    /\ tasks[s].pc = "ret"
    /\ tasks' = [tasks EXCEPT ![s].pc = "done", ![s].wg = 0]
    /\ UNCHANGED <<mon, infos>>

\* ... then info.run.Store(false). A finished goroutine whose containerInfo
\* the map no longer holds leaves nothing behind.
T_RunFalse(s) ==
    /\ tasks[s].pc = "done"
    /\ tasks' = IF \E n \in Names : infos[n] = s
                THEN [tasks EXCEPT ![s].pc = "dead", ![s].run = FALSE]
                ELSE [tasks EXCEPT ![s] = FreeTask]
    /\ UNCHANGED <<mon, infos>>

TaskNext(s) ==
    \/ T_NewLogFile(s)
    \/ T_ContainerLogs(s)
    \/ T_CopyReturns(s)
    \/ T_WgDone(s)
    \/ T_RunFalse(s)

\* ------------------------------------------------------------------ monitor
\* c.ContainerList(...): an error, or the containers listed now; the map keeps,
\* per monitored name, the ID of the container listed under it (0: not listed).
M_ContainerList ==
    /\ mon.pc = "list"
    /\ \E r \in {"err", "ok"} : mon' = [mon EXCEPT !.pc = "listed", !.list = r]
    /\ UNCHANGED <<infos, tasks>>

\* A failed listing handled as a listing of no containers.
M_ListFailedAsEmpty ==
    /\ mon.pc = "listed" /\ mon.list = "err"
    /\ mon' = [mon EXCEPT !.pc = "name", !.i = 1, !.list = "none",
                          !.running = [n \in Names |-> 0]]
    /\ UNCHANGED <<infos, tasks>>

\* err != nil: time.Sleep(5 * time.Second); continue.
M_ListFailed ==
    /\ mon.pc = "listed" /\ mon.list = "err"
    /\ mon' = [mon EXCEPT !.pc = "list"]
    /\ UNCHANGED <<infos, tasks>>

\* runningContainers is built from the listing.
M_BuildMap ==
    /\ mon.pc = "listed" /\ mon.list = "ok"
    /\ \E r \in [Names -> 0..MaxID] :
          mon' = [mon EXCEPT !.pc = "name", !.i = 1, !.list = "none", !.running = r]
    /\ UNCHANGED <<infos, tasks>>

\* Launching for every listed name, whatever the map holds.
NeedsLaunchAlways(exists, info, newID) == TRUE

\* Launching without looking at info.run.
NeedsLaunchNoRun(exists, info, newID) == ~exists \/ info.id # newID

\* !exists || info.id != newID || !info.run.Load()
NeedsLaunch(exists, info, newID) == ~exists \/ info.id # newID \/ ~info.run

\* info.wg.Wait() returning at once.
WaitSkipped(s) == TRUE

\* info.wg.Wait() returns once the goroutine of slot s has called wg.Done().
WaitReturns(s) == tasks[s].wg = 0

\* One name of the for loop, up to the first blocking call: the end of the
\* loop (time.Sleep, next cycle), the stopped container, the steady state, or
\* the cancel of the old goroutine.
M_Name ==
    /\ mon.pc = "name"
    /\ IF mon.i > Len(names)
       THEN /\ mon' = [mon EXCEPT !.pc = "list", !.i = 1,
                                  !.running = [n \in Names |-> 0]]
            /\ UNCHANGED <<infos, tasks>>
       ELSE LET name == names[mon.i]
                newID == mon.running[name]
                s == infos[name]
                exists == s # 0
            IN IF newID = 0
               THEN IF exists
                    THEN /\ tasks' = [tasks EXCEPT ![s].cancelled = TRUE]
                         /\ mon' = [mon EXCEPT !.pc = "waitStop", !.await = s]
                         /\ UNCHANGED infos
                    ELSE /\ mon' = [mon EXCEPT !.i = @ + 1]
                         /\ UNCHANGED <<infos, tasks>>
               ELSE IF NeedsLaunch(exists, IF exists THEN tasks[s] ELSE FreeTask, newID)
                    THEN IF exists
                         THEN /\ tasks' = [tasks EXCEPT ![s].cancelled = TRUE]
                              /\ mon' = [mon EXCEPT !.pc = "waitReplace", !.await = s]
                              /\ UNCHANGED infos
                         ELSE /\ mon' = [mon EXCEPT !.pc = "launch"]
                              /\ UNCHANGED <<infos, tasks>>
                    ELSE /\ mon' = [mon EXCEPT !.i = @ + 1]
                         /\ UNCHANGED <<infos, tasks>>

\* The map lets go of the containerInfo of slot s. A goroutine past its
\* wg.Done() has only run.Store(false) left, on a containerInfo nothing reads
\* any more: it leaves nothing behind.
Forget(s) ==
    IF tasks[s].wg = 0 THEN [tasks EXCEPT ![s] = FreeTask] ELSE tasks

\* containerInfos.Delete(name) without the wait for the goroutine.
M_StopNoWait ==
    /\ mon.pc = "waitStop"
    /\ infos' = [infos EXCEPT ![names[mon.i]] = 0]
    /\ mon' = [mon EXCEPT !.pc = "name", !.i = @ + 1, !.await = 0]
    /\ tasks' = Forget(mon.await)

\* The stopped container: info.wg.Wait() returns, containerInfos.Delete(name).
M_WaitStop ==
    /\ mon.pc = "waitStop"
    /\ WaitReturns(mon.await)
    /\ infos' = [infos EXCEPT ![names[mon.i]] = 0]
    /\ mon' = [mon EXCEPT !.pc = "name", !.i = @ + 1, !.await = 0]
    /\ tasks' = Forget(mon.await)

\* The replaced goroutine: info.wg.Wait() returns.
M_WaitReplace ==
    /\ mon.pc = "waitReplace"
    /\ WaitReturns(mon.await)
    /\ mon' = [mon EXCEPT !.pc = "launch", !.await = 0]
    /\ UNCHANGED <<infos, tasks>>

\* Slots a new goroutine can take: never used, or of a goroutine that has
\* finished and whose containerInfo this Store drops from the map.
FreeSlots(name) ==
    {s \in Slots : \/ tasks[s].pc = "free"
                   \/ infos[name] = s /\ tasks[s].wg = 0}

\* context.WithCancel, the new containerInfo, Store, wg.Add(1), run.Store(true), go.
M_Launch ==
    /\ mon.pc = "launch"
    /\ LET name == names[mon.i]
           old == infos[name]
           kept == IF old # 0 THEN Forget(old) ELSE tasks
       IN /\ FreeSlots(name) # {}
          /\ LET s == CHOOSE x \in FreeSlots(name) : \A y \in FreeSlots(name) : x <= y
             IN /\ tasks' = [kept EXCEPT ![s] =
                               [name |-> name, id |-> mon.running[name], pc |-> "start",
                                cancelled |-> FALSE, wg |-> 1, run |-> TRUE,
                                writer |-> "none"]]
                /\ infos' = [infos EXCEPT ![name] = s]
    /\ mon' = [mon EXCEPT !.pc = "name", !.i = @ + 1]

MonitorNext ==
    \/ M_ContainerList
    \/ M_ListFailed
    \/ M_BuildMap
    \/ M_Name
    \/ M_WaitStop
    \/ M_WaitReplace
    \/ M_Launch

\* ===================================================================== SpecGz
\* One LogFile whose rotations meet every failure of the compression.
GzFaults == Faults \cup {"flush"}

WriteGz ==
    /\ ghost.writes < MaxWrites
    /\ ~logf.closed
    /\ ~ghost.broken
    /\ \E p \in Payloads(ghost.writes + 1), fault \in GzFaults :
          \E r \in {Write(World(logf, disk, ghost), p, fault)} :
             /\ logf' = r.w.l
             /\ disk' = r.w.d
             /\ ghost' = [r.w.g EXCEPT !.writes = @ + 1,
                                       !.written = IF r.err THEN @ ELSE @ \o p,
                                       !.failed = @ \/ r.err,
                                       !.broken = r.err]
             /\ ret' = [op |-> "write", closed |-> logf.closed,
                        n |-> r.n, err |-> r.err, len |-> Len(p)]

\* ===================================================================== SpecIO
\* One LogFile whose file operations fail in every way, short writes included.
IOFaults == Faults \cup {"short"}

WriteIO ==
    /\ ghost.writes < MaxWrites
    /\ ~logf.closed
    /\ ~ghost.broken
    /\ \E p \in Payloads(ghost.writes + 1), fault \in IOFaults :
          \E r \in {Write(World(logf, disk, ghost), p, fault)} :
             /\ logf' = r.w.l
             /\ disk' = r.w.d
             /\ ghost' = [r.w.g EXCEPT !.writes = @ + 1,
                                       !.written = IF r.err THEN @ ELSE @ \o p,
                                       !.failed = @ \/ r.err,
                                       !.broken = r.err]
             /\ ret' = [op |-> "write", closed |-> logf.closed,
                        n |-> r.n, err |-> r.err, len |-> Len(p)]

\* ================================================================== SpecClose
\* One LogFile whose callers go on calling after Close.

\* Close(), on an open or a closed LogFile.
CloseCall ==
    /\ \E w \in {Close(World(logf, disk, ghost))} :
          /\ logf' = w.l
          /\ disk' = w.d
          /\ ghost' = w.g
    /\ ret' = [op |-> "close", closed |-> logf.closed, n |-> 0,
               err |-> CloseErr(World(logf, disk, ghost)), len |-> 0]

\* Write(p) on a closed LogFile: the call returns before any file operation.
WriteClosed ==
    /\ logf.closed
    /\ \E p \in Payloads(1) :
          \E r \in {Write(World(logf, disk, ghost), p, "none")} :
             /\ logf' = r.w.l
             /\ disk' = r.w.d
             /\ ghost' = r.w.g
             /\ ret' = [op |-> "write", closed |-> logf.closed,
                        n |-> r.n, err |-> r.err, len |-> Len(p)]

\* ================================================================ SpecRestart
\* The tasks of one name, one after the other: each constructs a LogFile on the
\* directory the one before left, writes, and closes it when it returns.

\* logfile, err := NewLogFile(name, limit, compression) of the next task; on an
\* error the task returns without a LogFile.
NewCall ==
    /\ logf.closed
    /\ \E fault \in NewFaults :
          \E r \in {NewLogFile(disk, ghost, logf.limitSize, logf.compression, fault)} :
             /\ logf' = IF r.err THEN Logf0(logf.limitSize, logf.compression) ELSE r.w.l
             /\ disk' = r.w.d
             /\ ghost' = [r.w.g EXCEPT !.broken = FALSE]
             /\ ret' = [op |-> "new", closed |-> logf.closed, n |-> 0,
                        err |-> r.err, len |-> 0]

\* The deferred logfile.Close() of the task that constructed the LogFile.
TaskClose ==
    /\ ~logf.closed
    /\ CloseCall

\* =================================================================== SpecConc
\* Write calls of several goroutines on one LogFile, statement by statement.

\* No l.mu: every caller goes ahead.
LockNone(k) == TRUE

\* l.mu.Lock() lets caller k in when no call holds the lock.
LockFree(k) == calls.mu = 0

\* Write(p) is called: l.mu.Lock().
W_Lock(k) ==
    /\ calls.c[k].pc = "idle"
    /\ ghost.writes < MaxWrites
    /\ LockFree(k)
    /\ \E p \in Payloads(k) :
          calls' = [calls EXCEPT !.mu = k, !.c[k] = [IdleCall EXCEPT !.pc = "locked", !.p = p]]
    /\ ghost' = [ghost EXCEPT !.writes = @ + 1]
    /\ UNCHANGED <<logf, disk, ret>>

\* The closed test, the nil test and the fast path; or on to the segments.
W_Head(k) ==
    /\ calls.c[k].pc = "locked"
    /\ LET p == calls.c[k].p
           w == World(logf, disk, ghost)
       IN IF logf.closed
          THEN /\ calls' = [calls EXCEPT !.c[k].pc = "unlock",
                                         !.c[k].st = [n |-> 0, err |-> TRUE]]
               /\ UNCHANGED <<logf, disk, ghost>>
          ELSE \E r0 \in {IF logf.f = "nil" THEN newFile(w, "none") ELSE Res(w, FALSE)} :
               IF r0.err \/ r0.w.l.f # "open"
               THEN /\ calls' = [calls EXCEPT !.c[k].pc = "unlock",
                                              !.c[k].st = [n |-> 0, err |-> TRUE]]
                    /\ logf' = r0.w.l /\ disk' = r0.w.d /\ ghost' = r0.w.g
               ELSE IF r0.w.l.size + Len(p) <= r0.w.l.limitSize
               THEN \E w1 \in {FileWrite(r0.w, p)} :
                    /\ logf' = [w1.l EXCEPT !.size = @ + Len(p)]
                    /\ disk' = w1.d /\ ghost' = w1.g
                    /\ calls' = [calls EXCEPT !.c[k].pc = "unlock",
                                              !.c[k].st = [n |-> Len(p), err |-> FALSE]]
               ELSE /\ calls' = [calls EXCEPT !.c[k].pc = "segs",
                                              !.c[k].st = [n |-> 0, err |-> FALSE],
                                              !.c[k].segs = SplitAfterSeq(p)]
                    /\ logf' = r0.w.l /\ disk' = r0.w.d /\ ghost' = r0.w.g
    /\ UNCHANGED ret

\* One turn of the loop over the segments; the return once they are done.
W_Segment(k) ==
    /\ calls.c[k].pc = "segs"
    /\ LET me == calls.c[k]
       IN IF me.segs = <<>>
          THEN /\ calls' = [calls EXCEPT !.c[k].pc = "unlock"]
               /\ UNCHANGED <<logf, disk, ghost>>
          ELSE \E st \in {WriteSegment([w |-> World(logf, disk, ghost), n |-> me.st.n,
                                         err |-> FALSE, fault |-> "none"],
                                        Head(me.segs))} :
               /\ logf' = st.w.l /\ disk' = st.w.d /\ ghost' = st.w.g
               /\ calls' = [calls EXCEPT !.c[k].st = [n |-> st.n, err |-> st.err],
                                         !.c[k].segs = Tail(me.segs),
                                         !.c[k].pc = IF st.err THEN "unlock" ELSE "segs"]
    /\ UNCHANGED ret

\* The call returns (n, err): the deferred l.mu.Unlock().
W_Unlock(k) ==
    /\ calls.c[k].pc = "unlock"
    /\ LET me == calls.c[k]
       IN /\ ret' = [op |-> "write", closed |-> logf.closed,
                     n |-> me.st.n, err |-> me.st.err, len |-> Len(me.p)]
          /\ ghost' = [ghost EXCEPT !.written = IF me.st.err THEN @ ELSE @ \o me.p,
                                    !.failed = @ \/ me.st.err]
    /\ calls' = [calls EXCEPT !.mu = IF @ = k THEN 0 ELSE @, !.c[k] = IdleCall]
    /\ UNCHANGED <<logf, disk>>

\* =================================================================== SpecTail
\* ReadLastLine on files of every content: short ones, and ones that reach
\* into a second buffer of bufSize bytes.
Pad(n) == [i \in 1..n |-> 97]

TailPads == {0, bufSize - 1, bufSize}

TailFiles == {Pad(n) \o t : n \in TailPads, t \in Seqs({NL, 97, 98}, MaxTail)}

InitTail ==
    /\ \E file \in TailFiles : disk = [exists |-> TRUE, data |-> file, rot |-> NoRot]
    /\ logf = Logf0(1, FALSE)
    /\ ghost = InitGhost(Disk0)
    /\ ret = Ret0
    /\ source = Source0
    /\ task = Task0
    /\ mon = Mon0
    /\ infos = Infos0
    /\ tasks = Tasks0
    /\ calls = Calls0

\* lastLine, err := ReadLastLine(logfile.f); on an error (file.Stat,
\* file.ReadAt) lastLine = "".
ReadTail ==
    /\ task.state = "idle"
    /\ \E readErr \in BOOLEAN :
          task' = [task EXCEPT !.state = "read", !.readErr = readErr,
                               !.last = IF readErr THEN <<>> ELSE ReadLastLine(disk.data)]
    /\ UNCHANGED <<logVars, source>>

\* ================================================================== SpecSince
\* The start of a stream task (TaskStart, TaskOpen) on an active file of any
\* content.

\* Active files: lines with and without a timestamp, a space, a terminator.
SinceFiles == Seqs({NL, SP, 56, 57, 120}, MaxTail)

\* The container's log while the task starts: three lines stamped from Clock0 on.
SinceSource ==
    [lines |-> [i \in 1..3 |-> [ts |-> Clock0 + i - 1, body |-> i % 2, id |-> i]],
     clock |-> Clock0 + 2, n |-> 3]

InitSince ==
    /\ \E file \in SinceFiles : disk = [exists |-> TRUE, data |-> file, rot |-> NoRot]
    /\ \E c \in BOOLEAN : logf = Logf0(MaxTail, c)
    /\ ghost = InitGhost(Disk0)
    /\ ret = Ret0
    /\ source = SinceSource
    /\ task = Task0
    /\ mon = Mon0
    /\ infos = Infos0
    /\ tasks = Tasks0
    /\ calls = Calls0

\* ----------------------------------------------------------- specifications
NextLog ==
    \/ WriteOp /\ UNCHANGED <<resVars, monVars, calls>>
    \/ CloseOp /\ UNCHANGED <<resVars, monVars, calls>>
    \/ NewInstance /\ UNCHANGED <<resVars, monVars, calls>>

SpecLog == InitLog /\ [][NextLog]_vars

NextResume ==
    \/ Emit /\ UNCHANGED <<monVars, calls>>
    \/ Recreate /\ UNCHANGED <<monVars, calls>>
    \/ TaskStart /\ UNCHANGED <<monVars, calls>>
    \/ TaskOpen /\ UNCHANGED <<monVars, calls>>
    \/ TaskCopy /\ UNCHANGED <<monVars, calls>>
    \/ TaskStop /\ UNCHANGED <<monVars, calls>>

SpecResume == InitResume /\ [][NextResume]_vars

NextMon ==
    \/ M_ContainerList /\ UNCHANGED <<logVars, resVars, calls>>
    \/ M_ListFailed /\ UNCHANGED <<logVars, resVars, calls>>
    \/ M_BuildMap /\ UNCHANGED <<logVars, resVars, calls>>
    \/ M_Name /\ UNCHANGED <<logVars, resVars, calls>>
    \/ M_WaitStop /\ UNCHANGED <<logVars, resVars, calls>>
    \/ M_WaitReplace /\ UNCHANGED <<logVars, resVars, calls>>
    \/ M_Launch /\ UNCHANGED <<logVars, resVars, calls>>
    \/ \E s \in Slots : T_NewLogFile(s) /\ UNCHANGED <<logVars, resVars, calls>>
    \/ \E s \in Slots : T_ContainerLogs(s) /\ UNCHANGED <<logVars, resVars, calls>>
    \/ \E s \in Slots : T_CopyReturns(s) /\ UNCHANGED <<logVars, resVars, calls>>
    \/ \E s \in Slots : T_WgDone(s) /\ UNCHANGED <<logVars, resVars, calls>>
    \/ \E s \in Slots : T_RunFalse(s) /\ UNCHANGED <<logVars, resVars, calls>>

SpecMon == InitMon /\ [][NextMon]_vars

\* The Go scheduler runs the loop of run() whenever it can take a step, and a
\* goroutine's file and runtime calls return: NewLogFile and ContainerLogs
\* return, the deferred calls run, and StdCopy returns once its ctx is
\* cancelled (an uncancelled stream may stay open for ever).
MonStep == MonitorNext /\ UNCHANGED <<logVars, resVars, calls>>

TaskStep(s) ==
    /\ \/ T_NewLogFile(s)
       \/ T_ContainerLogs(s)
       \/ T_CopyReturns(s) /\ tasks[s].cancelled
       \/ T_WgDone(s)
       \/ T_RunFalse(s)
    /\ UNCHANGED <<logVars, resVars, calls>>

SpecMonLive ==
    /\ InitMon
    /\ [][NextMon]_vars
    /\ WF_vars(MonStep)
    /\ \A s \in Slots : WF_vars(TaskStep(s))

NextGz ==
    \/ WriteGz /\ UNCHANGED <<resVars, monVars, calls>>
    \/ CloseOp /\ UNCHANGED <<resVars, monVars, calls>>
    \/ NewInstance /\ UNCHANGED <<resVars, monVars, calls>>

SpecGz == InitLog /\ [][NextGz]_vars

NextIO ==
    \/ WriteIO /\ UNCHANGED <<resVars, monVars, calls>>
    \/ CloseOp /\ UNCHANGED <<resVars, monVars, calls>>
    \/ NewInstance /\ UNCHANGED <<resVars, monVars, calls>>

SpecIO == InitLog /\ [][NextIO]_vars

NextClose ==
    \/ WriteOp /\ UNCHANGED <<resVars, monVars, calls>>
    \/ CloseCall /\ UNCHANGED <<resVars, monVars, calls>>
    \/ WriteClosed /\ UNCHANGED <<resVars, monVars, calls>>

SpecClose == InitLog /\ [][NextClose]_vars

NextRestart ==
    \/ WriteOp /\ UNCHANGED <<resVars, monVars, calls>>
    \/ TaskClose /\ UNCHANGED <<resVars, monVars, calls>>
    \/ NewCall /\ UNCHANGED <<resVars, monVars, calls>>

SpecRestart == InitLog /\ [][NextRestart]_vars

NextSince ==
    \/ TaskStart /\ UNCHANGED <<monVars, calls>>
    \/ TaskOpen /\ UNCHANGED <<monVars, calls>>

SpecSince == InitSince /\ [][NextSince]_vars

NextConc ==
    \/ \E k \in Callers : W_Lock(k) /\ UNCHANGED <<resVars, monVars>>
    \/ \E k \in Callers : W_Head(k) /\ UNCHANGED <<resVars, monVars>>
    \/ \E k \in Callers : W_Segment(k) /\ UNCHANGED <<resVars, monVars>>
    \/ \E k \in Callers : W_Unlock(k) /\ UNCHANGED <<resVars, monVars>>

SpecConc == InitLog /\ [][NextConc]_vars

NextTail == ReadTail /\ UNCHANGED <<monVars, calls>>

SpecTail == InitTail /\ [][NextTail]_vars

\* -------------------------------------------------- what the directory holds
RotIndices(d) == {k[1] : k \in DOMAIN d.rot}

\* The log bytes of the rotated file with key k.
RotData(d, k) == IF k[2] THEN GzipDecode(d.rot[k]) ELSE d.rot[k]

\* The rotated files' log bytes from index i on, in increasing index order.
RECURSIVE ConcatFrom(_, _)
ConcatFrom(d, i) ==
    IF i > SetMax(RotIndices(d)) THEN <<>>
    ELSE LET ks == {k \in DOMAIN d.rot : k[1] = i}
         IN (IF ks = {} THEN <<>> ELSE RotData(d, CHOOSE k \in ks : TRUE))
            \o ConcatFrom(d, i + 1)

\* The rotated files in index order, then the active file.
Persisted(d) == ConcatFrom(d, 1) \o d.data

StartedEmpty == ghost.disk0.data = <<>> /\ DOMAIN ghost.disk0.rot = {}

\* ------------------------------------------------------------------ claims

\* The goroutines of name n that have not finished.
Live(n) == {s \in Slots : tasks[s].pc # "free" /\ tasks[s].name = n}

\* C1: for each name at most one goroutine holds an open LogFile; an open
\* LogFile belongs to a goroutine that has not called wg.Done(); a goroutine
\* the map does not hold has called wg.Done() and closed its LogFile; and when
\* the loop is about to store a new containerInfo over an old one, the old
\* goroutine has been cancelled, its LogFile is closed and wg.Done() has run.
C1_SingleTask ==
    /\ \A n \in Names :
          Cardinality({s \in Live(n) : tasks[s].writer = "open"}) <= 1
    /\ \A s \in Slots : tasks[s].writer = "open" => tasks[s].wg = 1
    /\ \A s \in Slots :
          (tasks[s].pc # "free" /\ infos[tasks[s].name] # s)
          => tasks[s].wg = 0 /\ tasks[s].writer # "open"
    /\ (mon.pc = "launch" /\ infos[names[mon.i]] # 0)
       => LET old == tasks[infos[names[mon.i]]]
          IN old.cancelled /\ old.wg = 0 /\ old.writer # "open"

\* The loop is about to replace, after an ID change, a goroutine that had its
\* LogFile open and has closed it.
C1_Witness ==
    /\ mon.pc = "launch"
    /\ infos[names[mon.i]] # 0
    /\ LET old == tasks[infos[names[mon.i]]]
       IN /\ old.id # mon.running[names[mon.i]]
          /\ old.writer = "closed"
          /\ old.wg = 0

\* C6: no log line is split across two files: a rotated file that does not end
\* with a line terminator is followed by no byte in the later files.
C6_LineSafe ==
    \A k \in DOMAIN disk.rot :
        LET data == RotData(disk, k)
        IN (data # <<>> /\ data[Len(data)] # NL)
           => ConcatFrom(disk, k[1] + 1) \o disk.data = <<>>

\* The lines the log files hold, in file order.
PersistedLines ==
    SelectSeq(SplitAfterSeq(Persisted(disk)), LAMBDA l : l # <<>>)

\* What tells a line of the containers from every other: its timestamp, the
\* space and the first byte of its content.
LineKey(l) == SubSeq(l, 1, Min(Len(l), Len(FirstToken(l)) + 2))

\* C2: no line of the container's log is persisted twice: the lines in the
\* rotated files and the active file are pairwise different in their
\* timestamp and first content byte.
C2_NoDuplicate ==
    \A i, j \in 1..Len(PersistedLines) :
        i # j => LineKey(PersistedLines[i]) # LineKey(PersistedLines[j])

\* C7: from an empty target, without compression and with every Write so far
\* successful, the rotated files in index order followed by the active file are
\* exactly the payloads written, in order, and the last Write returned n = len(p).
C7_ByteStream ==
    (StartedEmpty /\ ~logf.compression /\ ~ghost.failed)
    => /\ Persisted(disk) = ghost.written
       /\ ret.n = ret.len
       /\ ~ret.err

C7_Witness ==
    /\ StartedEmpty /\ ~logf.compression /\ ~ghost.failed
    /\ Len(ghost.hist) >= 2
    /\ ghost.writes = MaxWrites
    /\ disk.data # <<>>

\* C8: on a target that started empty, l.size exceeds the limit only while the
\* current file holds a segment longer than the limit, written since the
\* active file was last moved away; without any such segment l.size never
\* exceeds the limit.
C8_SizeCeiling ==
    (ghost.disk0.data = <<>>)
    => /\ (logf.size > logf.limitSize => ghost.oversize)
       /\ (~ghost.everOver => logf.size <= logf.limitSize)

\* C9: the k-th rotation since the start made the file with index maxIndex0 + k
\* (.gz with compression), holding the bytes rotated out; the files found at the
\* start are unchanged; nothing else exists and no index is used twice.
C9_IndexMonotonic ==
    LET base == SetMax(RotIndices(ghost.disk0))
        made == {ghost.hist[i].key : i \in 1..Len(ghost.hist)}
    IN /\ \A k \in DOMAIN ghost.disk0.rot :
             k \in DOMAIN disk.rot /\ disk.rot[k] = ghost.disk0.rot[k]
       /\ \A i \in 1..Len(ghost.hist) :
             LET h == ghost.hist[i]
             IN /\ h.key[1] = base + i
                /\ h.key \in DOMAIN disk.rot
                /\ RotData(disk, h.key) = h.data
       /\ DOMAIN disk.rot = DOMAIN ghost.disk0.rot \cup made
       /\ \A k1, k2 \in DOMAIN disk.rot : k1[1] = k2[1] => k1 = k2

C9_Witness ==
    /\ DOMAIN ghost.disk0.rot # {}
    /\ logf.compression
    /\ Len(ghost.hist) >= 2
    /\ ~logf.closed

\* The goroutine of name n has returned on its own, not cancelled.
ExitedOwn(n) ==
    /\ infos[n] # 0
    /\ tasks[infos[n]].pc = "ret"
    /\ ~tasks[infos[n]].cancelled

\* A goroutine for name n has just been launched.
Relaunched(n) == infos[n] # 0 /\ tasks[infos[n]].pc = "start"

\* The listing of the current cycle does not hold name n.
NotListed(n) == mon.pc = "name" /\ mon.running[n] = 0

ListOk == mon.pc = "listed" /\ mon.list = "ok"

\* A goroutine starts only in the step in which the loop launches it.
NoSelfRestart ==
    \A s \in Slots :
        (tasks'[s].pc = "start" /\ tasks[s].pc # "start")
        => /\ mon.pc = "launch"
           /\ infos'[names[mon.i]] = s

\* C3: no goroutine starts except by the loop's launch; a goroutine that has
\* returned ends with run = false on its containerInfo, unless the loop has
\* replaced it before; and, if listings keep succeeding, a goroutine that has
\* returned on its own is followed by a new goroutine for its name or by a
\* listing that does not hold the name.
C3_Relaunch ==
    /\ [][NoSelfRestart]_vars
    /\ \A s \in Slots :
          (tasks[s].pc = "ret") ~> (~tasks[s].run \/ tasks[s].pc = "start")
    /\ []<>ListOk
       => \A n \in Names : ExitedOwn(n) ~> (Relaunched(n) \/ NotListed(n))

\* The loop is about to launch a goroutine for a container with the same ID
\* as the one whose goroutine has ended with run = false.
C3_Witness ==
    /\ mon.pc = "launch"
    /\ infos[names[mon.i]] # 0
    /\ LET old == tasks[infos[names[mon.i]]]
       IN /\ old.id = mon.running[names[mon.i]]
          /\ old.pc = "dead"
          /\ ~old.run

\* The loop is at name n of a cycle whose listing does not hold n.
AbsentAt(n) ==
    /\ mon.pc \in {"name", "waitStop"}
    /\ mon.i <= Len(names)
    /\ names[mon.i] = n
    /\ mon.running[n] = 0

C4_Step ==
    \A n \in Names :
        \* the entry is removed only for an absent name, after cancel and Done
        /\ (infos[n] # 0 /\ infos'[n] # infos[n])
           => \/ mon.running[n] # 0 /\ infos'[n] # 0
              \/ /\ AbsentAt(n) /\ infos'[n] = 0
                 /\ tasks[infos[n]].cancelled
                 /\ tasks[infos[n]].wg = 0
                 /\ tasks[infos[n]].writer # "open"
        \* the loop's step at an absent name with an entry: cancel, then wait
        /\ (AbsentAt(n) /\ mon.pc = "name" /\ infos[n] # 0 /\ mon' # mon)
           => /\ tasks'[infos[n]].cancelled
              /\ infos' = infos
              /\ mon'.pc = "waitStop" /\ mon'.i = mon.i
        \* the wait holds the loop until Done
        /\ (AbsentAt(n) /\ mon.pc = "waitStop" /\ tasks[infos[n]].wg = 1)
           => mon' = mon /\ infos' = infos
        \* no entry: nothing happens
        /\ (AbsentAt(n) /\ infos[n] = 0 /\ mon' # mon)
           => infos' = infos /\ tasks' = tasks /\ mon'.i = mon.i + 1
        \* no launch for an absent name
        /\ AbsentAt(n) => mon'.pc # "launch" /\ infos'[n] \in {0, infos[n]}

\* C4: for a name the listing does not hold, the loop cancels the tracked
\* goroutine, stays in the wait until wg.Done() has run (the LogFile is
\* closed by then), and only then deletes the entry; it launches nothing for
\* the name in that cycle, and without an entry it changes nothing.
C4_AbsentName == [][C4_Step]_vars

\* The wait of the absent-name branch is over: the cancelled goroutine, which
\* had its LogFile open, has closed it and called wg.Done().
C4_Witness ==
    /\ mon.pc = "waitStop"
    /\ mon.running[names[mon.i]] = 0
    /\ infos[names[mon.i]] = mon.await
    /\ tasks[mon.await].cancelled
    /\ tasks[mon.await].wg = 0
    /\ tasks[mon.await].writer = "closed"

C5_Step ==
    (mon.pc = "listed" /\ mon.list = "err")
    => /\ infos' = infos
       /\ \A s \in Slots :
             /\ tasks'[s].cancelled = tasks[s].cancelled
             /\ tasks'[s].pc = "start" => tasks[s].pc = "start"
       /\ mon' # mon
          => /\ mon'.pc = "list"
             /\ mon'.running = mon.running /\ mon'.await = mon.await

\* C5: after a failed ContainerList the loop goes back to listing: the map is
\* unchanged, no goroutine is cancelled, awaited or launched.
C5_ListFailure == [][C5_Step]_vars

\* A listing has failed and the loop is back at ContainerList, with a tracked
\* goroutine still copying, not cancelled.
C5_Witness ==
    /\ mon.pc = "list" /\ mon.list = "err"
    /\ \E n \in Names :
          /\ infos[n] # 0
          /\ tasks[infos[n]].pc = "copy"
          /\ ~tasks[infos[n]].cancelled

\* C10: whatever state the goroutines are in, the loop of run() has a step to
\* take: no goroutine that has not called wg.Done() holds it back from the
\* other names and from its next cycle.
C10_MonitorNeverHeld == ENABLED MonStep

\* The complete lines the log files hold.
LineSet == {PersistedLines[i] : i \in 1..Len(PersistedLines)}

\* C11: while the task streams, every line of the container's log before the
\* stream's position is in the log files, whole: the since cursor of a start
\* skips no line that is not persisted, and a task that has caught up has
\* left none out.
C11_NoGap ==
    task.state = "streaming"
    => \A i \in 1..Len(source.lines) :
          i < StreamNext(source.lines, task.pos, task.since)
          => LineBytes(source.lines[i]) \in LineSet

\* The last line the task read starts with a timestamp and a space.
LastStamped ==
    /\ \E i \in 1..Len(task.last) : task.last[i] = SP
    /\ IsTime(FirstToken(task.last))

\* C12: when the last line of the active file starts with a timestamp T and a
\* space, the since of the task is T plus one nanosecond, later than T, and
\* the stream opened with it starts after every line stamped T or earlier.
C12_Cursor ==
    (task.state = "streaming" /\ LastStamped)
    => LET T == ParseTime(FirstToken(task.last))
       IN /\ IsTime(task.since)
          /\ ParseTime(task.since) = T + 1
          /\ \A i \in 1..Len(source.lines) :
                i >= StreamNext(source.lines, task.pos, task.since)
                => source.lines[i].ts > T

\* A task resumed behind a persisted line whose timestamp ends in 9: the
\* cursor carries into the next digit, and the line is still in the source.
C12_Witness ==
    /\ task.state = "streaming"
    /\ LastStamped
    /\ FirstToken(task.last) = <<57>>
    /\ task.since = <<49, 48>>
    /\ \E i \in 1..Len(source.lines) : source.lines[i].ts = 9
    /\ StreamNext(source.lines, task.pos, task.since) <= Len(source.lines)

\* The final line of a file without its terminator: what follows the last NL
\* of the content, one NL at the end of the file set aside.
LastLineOf(file) ==
    LET body == IF file # <<>> /\ file[Len(file)] = NL
                THEN SubSeq(file, 1, Len(file) - 1) ELSE file
        nls == {i \in 1..Len(body) : body[i] = NL}
    IN SubSeq(body, SetMax(nls) + 1, Len(body))

\* C13: a ReadLastLine that does not fail returns the final line of the file
\* without its trailing line terminator, and the empty string for an empty file.
C13_TailRead ==
    (task.state = "read" /\ ~task.readErr) => task.last = LastLineOf(disk.data)

C14_State ==
    \* the first Close marks the LogFile closed and releases the handle
    /\ (ret.op = "close" /\ ~ret.closed) => logf.closed /\ logf.f # "open"
    \* a later Close returns nil
    /\ (ret.op = "close" /\ ret.closed) => ~ret.err
    \* a Write after Close returns (0, error)
    /\ (ret.op = "write" /\ ret.closed) => ret.err /\ ret.n = 0

\* C14: the first Close sets l.closed and closes the open handle; a Close of
\* a closed LogFile returns nil; a Write on a closed LogFile returns 0 and an
\* error; and no call on a closed LogFile changes the files or the LogFile.
C14_CloseContract ==
    /\ []C14_State
    /\ [][logf.closed => (logf' = logf /\ disk' = disk)]_vars

\* A Write has been refused after the Close of a LogFile that had written.
C14_Witness ==
    /\ ret.op = "write" /\ ret.closed /\ ret.len > 0
    /\ logf.closed
    /\ disk.data # <<>>
    /\ ghost.writes > 0

\* What the directory held at the start.
Persisted0 == Persisted(ghost.disk0)

\* C15: with no call inside Write the log files hold what the directory held
\* at the start followed by the payloads in the order their calls returned;
\* while a call is inside, they hold in addition the bytes that call has
\* written so far, a prefix of its payload, and no other call is inside.
C15_Serialized ==
    /\ Cardinality({k \in Callers : calls.c[k].pc \in {"locked", "segs", "unlock"}}) <= 1
    /\ calls.mu = 0 => Persisted(disk) = Persisted0 \o ghost.written
    /\ \A k \in Callers :
          calls.mu = k
          => LET me == calls.c[k]
                 n == IF me.pc = "locked" THEN 0 ELSE me.st.n
             IN /\ me.pc \in {"locked", "segs", "unlock"}
                /\ Persisted(disk) = Persisted0 \o ghost.written \o SubSeq(me.p, 1, n)
                /\ me.pc = "unlock" => n = Len(me.p)

\* Calls of both goroutines have returned with their payloads written, and a
\* rotation happened.
C15_Witness ==
    /\ calls.mu = 0
    /\ Len(ghost.hist) >= 1
    /\ \E i, j \in 1..Len(ghost.written) :
          ghost.written[i] = Letter(1) /\ ghost.written[j] = Letter(2)

\* C16: every .gz file made since the start is the complete compression of
\* the bytes rotated out (no partial .gz file stays), and whenever the original
\* was deleted its bytes are in the .gz file that replaced it.
C16_CompressionSafe ==
    /\ \A k \in (DOMAIN disk.rot) \ (DOMAIN ghost.disk0.rot) :
          k[2] => \E i \in 1..Len(ghost.hist) :
                     /\ ghost.hist[i].key = k
                     /\ disk.rot[k] = GzipEncode(ghost.hist[i].data)
    /\ \A i \in 1..Len(ghost.hist) :
          LET h == ghost.hist[i]
          IN h.key[2] => (h.key \in DOMAIN disk.rot /\ RotData(disk, h.key) = h.data)

\* Slot s holds the same goroutine before and after the step.
SameTask(s) == tasks[s].pc # "free" /\ tasks'[s].pc \notin {"free", "start"}

C17_Step ==
    \A s \in Slots :
        \* wg.Done() runs with the LogFile closed, or never opened
        /\ (SameTask(s) /\ tasks[s].wg = 1 /\ tasks'[s].wg = 0)
           => tasks[s].writer # "open" /\ tasks'[s].writer # "open"
        \* run.Store(false) comes after wg.Done()
        /\ (SameTask(s) /\ tasks[s].run /\ ~tasks'[s].run)
           => tasks[s].wg = 0 /\ tasks[s].writer # "open"
        \* a LogFile is opened only by the construction, and never twice
        /\ (tasks'[s].writer = "open" /\ tasks[s].writer # "open")
           => tasks[s].pc = "start" /\ tasks[s].writer = "none"
        \* the goroutine whose construction failed goes on without a LogFile
        /\ (tasks[s].pc = "start" /\ tasks'[s].pc = "ret")
           => tasks'[s].writer = "none"

\* C17: a goroutine that has returned from handleWithContext holds no open
\* LogFile; wg.Done() runs after the Close and before run.Store(false); the
\* goroutine whose NewLogFile failed never holds a LogFile.
C17_ExitOrder ==
    /\ [](\A s \in Slots : tasks[s].pc \in {"ret", "done", "dead"}
                            => tasks[s].writer # "open")
    /\ [][C17_Step]_vars

\* A goroutine whose stream ended on its own has closed its LogFile and
\* called wg.Done(), and run is still true; another one, whose NewLogFile
\* failed, has returned without a LogFile.
C17_Witness ==
    /\ \E s \in Slots :
          /\ tasks[s].pc = "done" /\ ~tasks[s].cancelled
          /\ tasks[s].writer = "closed" /\ tasks[s].run
    /\ \E s \in Slots :
          /\ tasks[s].pc = "ret" /\ tasks[s].writer = "none"

\* The loop is at name n, listed under the ID of its entry, whose goroutine
\* has run = true.
SteadyAt(n) ==
    /\ mon.pc = "name"
    /\ mon.i <= Len(names)
    /\ names[mon.i] = n
    /\ mon.running[n] # 0
    /\ infos[n] # 0
    /\ tasks[infos[n]].id = mon.running[n]
    /\ tasks[infos[n]].run

\* C18: at a name listed under the ID of its entry, with the entry running,
\* the loop goes on to the next name: the map and the goroutines stay as
\* they are, nothing is cancelled, awaited or launched; so too at the second
\* place of a name given twice.
C18_Steady ==
    [][\A n \in Names :
          (SteadyAt(n) /\ mon' # mon)
          => /\ infos' = infos
             /\ tasks' = tasks
             /\ mon' = [mon EXCEPT !.i = @ + 1]]_vars

\* The loop has passed both places of the name given twice, the second one in
\* the steady state: its goroutine is copying, not cancelled.
C18_Witness ==
    /\ mon.pc = "name"
    /\ mon.i > Len(names)
    /\ LET n == names[Len(names)]
       IN /\ infos[n] # 0
          /\ tasks[infos[n]].id = mon.running[n]
          /\ tasks[infos[n]].pc = "copy"
          /\ ~tasks[infos[n]].cancelled
          /\ tasks[infos[n]].run

\* The step rotates: a rotated file is made.
Rotates == DOMAIN disk'.rot # DOMAIN disk.rot

\* The step appends data to the active file and rotates nothing.
Appends(data) == disk'.data = disk.data \o data /\ disk'.rot = disk.rot

C19_Step ==
    \A k \in Callers :
        LET me == calls.c[k]
            seg == Head(me.segs)
        IN \* the head of Write: a payload that fits is appended whole
           /\ (me.pc = "locked" /\ calls'.c[k] # me /\ ~logf.closed /\ logf.f = "open")
              => IF logf.size + Len(me.p) <= logf.limitSize
                 THEN /\ Appends(me.p)
                      /\ logf'.size = logf.size + Len(me.p)
                      /\ calls'.c[k].pc = "unlock"
                 ELSE /\ calls'.c[k].pc = "segs"
                      /\ UNCHANGED <<logf, disk>>
           \* a segment: over the limit, or not fitting, or fitting
           /\ (me.pc = "segs" /\ me.segs # <<>> /\ calls'.c[k] # me)
              => IF Len(seg) > logf.limitSize
                 THEN Appends(seg)
                 ELSE IF logf.size + Len(seg) > logf.limitSize
                 THEN /\ Rotates
                      /\ Cardinality(DOMAIN disk'.rot) = Cardinality(DOMAIN disk.rot) + 1
                      /\ disk'.data = seg
                 ELSE Appends(seg)
           \* nothing else rotates
           /\ Rotates => \E j \in Callers : calls.c[j].pc = "segs" /\ calls.c[j].segs # <<>>

\* C19: a payload that fits (l.size + len(p) <= limit) is appended whole with
\* no rotation; otherwise, segment by segment, a rotation is made exactly
\* before a segment no longer than the limit that does not fit, and a segment
\* longer than the limit is appended in full with no rotation.
C19_RotationTrigger == [][C19_Step]_vars

\* Inside a Write that did not fit: a segment longer than the limit has been
\* appended, a rotation was made before a later segment, segments remain.
C19_Witness ==
    /\ ghost.everOver
    /\ Len(ghost.hist) >= 1
    /\ disk.data # <<>>
    /\ \E k \in Callers : calls.c[k].pc = "segs" /\ calls.c[k].segs # <<>>

\* C20: whenever the LogFile holds an open file, l.size is the length of the
\* active file.
C20_SizeIsLength ==
    logf.f = "open" => logf.size = Len(disk.data)

C21_Step ==
    \* NewLogFile: no rotation, no byte changed, l.size from the file
    /\ logf.closed
       => /\ disk'.rot = disk.rot
          /\ disk'.data = disk.data
          /\ disk.exists => disk' = disk
          /\ ~logf'.closed
             => /\ logf'.f = "open"
                /\ logf'.size = Len(disk.data)
                /\ disk'.exists
    \* Close: the handle is released, the directory is as it was
    /\ (~logf.closed /\ logf'.closed)
       => /\ disk' = disk
          /\ logf'.f # "open"

\* C21: NewLogFile on a directory some task has left makes no rotated file
\* and changes no byte of an existing file, also when it fails, and a LogFile
\* it returns has the file open with l.size its length; Close leaves no open
\* handle and changes no file. A Close followed by a NewLogFile leaves every
\* file as it was.
C21_ContentKept == [][C21_Step]_vars

\* A task has constructed its LogFile on an active file that holds more than
\* the limit, next to rotated files of earlier tasks.
C21_Witness ==
    /\ ret.op = "new" /\ ~ret.err
    /\ logf.f = "open" /\ ~logf.closed
    /\ disk.data # <<>>
    /\ logf.size = Len(disk.data)
    /\ logf.size > logf.limitSize
    /\ DOMAIN disk.rot # {}

C22_State ==
    task.state \in {"opening", "streaming"}
    => LET timestamp == FirstToken(task.last)
       IN \* a failed read, or an empty file: no last line, since unset
          /\ (task.readErr \/ disk.data = <<>>) => task.last = <<>> /\ task.since = <<>>
          \* a token that is no timestamp is the since, as it is
          /\ (task.last # <<>> /\ ~IsTime(timestamp)) => task.since = timestamp
          \* a stream opened with since unset starts at the first line
          /\ (task.state = "streaming" /\ task.since = <<>>) => task.pos = 1

C22_Step ==
    \* the task with a LogFile goes on to the call of ContainerLogs, nowhere else
    /\ (task.state = "idle" /\ task' # task) => task'.state = "opening"
    \* the task returns only out of the call of ContainerLogs
    /\ (task'.state = "idle" /\ task.state # "idle") => task.state = "opening"

\* C22: after a failed ReadLastLine and on an empty active file since is
\* unset, and the stream opened with it starts at the first line of the
\* container's log; a first token of the last line that addNanosecond does
\* not parse is the since as it is; and whatever the file holds, the task
\* reaches its call of ContainerLogs.
C22_ResumeNeverFails ==
    /\ []C22_State
    /\ [][C22_Step]_vars
    /\ [](task.state = "opening" => ENABLED TaskOpen)

\* A stream is open with the since taken as it is from a last line whose
\* first token is no timestamp.
C22_Witness ==
    /\ task.state = "streaming"
    /\ ~task.readErr
    /\ task.last # <<>>
    /\ FirstToken(task.last) # <<>>
    /\ ~IsTime(FirstToken(task.last))
    /\ task.since = FirstToken(task.last)
    /\ \E i \in 1..Len(task.last) : task.last[i] = SP

\* The last Write had a payload and returned without an error.
WroteSome == ret.op = "write" /\ ~ret.err /\ ret.len > 0

\* C23: after a Write of a non-empty payload that returned no error the
\* active file is not empty, and its last line is the last line of the bytes
\* written so far: a rotation inside Write is followed, in the same call, by
\* bytes written to the new active file.
C23_ResumePoint ==
    WroteSome
    => /\ disk.data # <<>>
       /\ ~ghost.failed => LastLineOf(disk.data) = LastLineOf(Persisted(disk))

\* The step takes the entry of name n out of the map, or stores a new one over it.
EntryLeaves(n) ==
    /\ infos[n] # 0
    /\ \/ infos'[n] # infos[n]
       \/ tasks'[infos[n]].pc = "start" /\ tasks[infos[n]].pc # "start"

C24_State ==
    \* run = false on a tracked entry: wg.Done() has run, no LogFile is open
    /\ \A n \in Names :
          (infos[n] # 0 /\ ~tasks[infos[n]].run)
          => /\ tasks[infos[n]].wg = 0
             /\ tasks[infos[n]].writer # "open"
             /\ tasks[infos[n]].pc = "dead"
    \* the wait for such an entry returns
    /\ (mon.pc \in {"waitStop", "waitReplace"} /\ ~tasks[mon.await].run)
       => /\ infos[names[mon.i]] = mon.await
          /\ ENABLED MonStep

C24_Step ==
    \A n \in Names :
        EntryLeaves(n)
        => /\ mon.pc \in {"waitStop", "launch"}
           /\ names[mon.i] = n
           /\ tasks[infos[n]].cancelled
           /\ tasks[infos[n]].wg = 0
           /\ tasks[infos[n]].writer # "open"

\* C24: a tracked entry with run = false belongs to a goroutine that has
\* called wg.Done() and holds no open LogFile, so the loop's wait for it
\* returns; and an entry leaves the map, deleted or stored over, only after
\* the loop has called its cancel and its goroutine has called wg.Done().
C24_DoneBeforeNotRunning ==
    /\ []C24_State
    /\ [][C24_Step]_vars

\* The loop has cancelled an entry whose goroutine had ended on its own with
\* run = false and its LogFile closed, and is in the wait before replacing it.
C24_Witness ==
    /\ mon.pc = "waitReplace"
    /\ infos[names[mon.i]] = mon.await
    /\ tasks[mon.await].id = mon.running[names[mon.i]]
    /\ ~tasks[mon.await].run
    /\ tasks[mon.await].cancelled
    /\ tasks[mon.await].writer = "closed"

====
